---- MODULE Spec2Model ----
(***************************************************************************)
(* A model of xcode/Vp8Streamer/simple_encoder.c: the three entry points   *)
(* setup_encoder, encode_frame and finalise_encoder that drive one libvpx  *)
(* encoder context held in file-scope statics.                             *)
(*                                                                         *)
(* The encoder engine (libvpx) is an external collaborator.  Each of      *)
(* its calls is modelled at the call site: on a context that holds a live  *)
(* handle the call may succeed or report an error; on a context without a  *)
(* live handle (zero-initialised or destroyed) it reports an error.        *)
(***************************************************************************)
EXTENDS Integers, Sequences, FiniteSets, TLC

\* ------------------------------------------------------------ bounds ----
MaxFrames  == 3      \* encode_frame calls that are explored
MaxHandles == 2      \* engine handles that are ever created
MaxPkts    == 2      \* packets the engine emits for one encode call

\* --------------------------------------------------------- constants ----
VPX_CODEC_OK == 0
VPX_CODEC_ERROR == 1
flags == 0
NoHandle == 0        \* codec context without a live encoder behind it

\* the configurations vpx_codec_enc_config_default can fill in
EngineDefaults == {[g_w |-> 320, g_h |-> 240, rc_target_bitrate |-> 256],
                   [g_w |-> 16,  g_h |-> 16,  rc_target_bitrate |-> 100]}

\* ------------------------------------------------------------ inputs ----
Dims   == {14, 16, 17, 4096}

\* the widths of C's long the build can have (ILP32 and LP64 targets)
LongWidths == {32, 64}
Frames == {"imgA", "imgB"}

FramePkt(key) == [kind |-> "VPX_CODEC_CX_FRAME_PKT", key |-> key]
\* a packet of another kind: its union holds other data, whose bits may or may
\* not show VPX_FRAME_IS_KEY where data.frame.flags would be
OtherPkt(key) == [kind |-> "VPX_CODEC_STATS_PKT", key |-> key]
Packets       == {FramePkt(TRUE), FramePkt(FALSE), OtherPkt(TRUE), OtherPkt(FALSE)}

\* the packet lists an encode call can leave in the engine: 0 .. MaxPkts
\* packets.  encode_frame reads the first one only, so the first ranges over
\* Packets and the ones behind it are inter frames
PacketSeqs ==
    {<<>>} \cup
    UNION {{[i \in 1..n |-> IF i = 1 THEN p ELSE FramePkt(FALSE)] : p \in Packets} :
              n \in 1..MaxPkts}

VARIABLES
    codec,          \* static vpx_codec_ctx_t codec: the handle it holds
    cfg,            \* static vpx_codec_enc_cfg_t cfg
    frame_cnt,      \* static int frame_cnt
    res,            \* static vpx_codec_err_t res
    frame_avail,    \* static int frame_avail
    got_data,       \* static int got_data
    proc,           \* "running", "exited" (exit(EXIT_FAILURE)), "crashed"
    diag,           \* the diagnostic printed by the last call, "" if none
    ret,            \* what the last call returned, "none" if it did not return
    op,             \* the entry point called last
    args,           \* the arguments of the last call
    live,           \* the engine's handles that are created and not destroyed
    created,        \* handles created so far
    destroy_calls,  \* calls of vpx_codec_destroy so far
    engine_calls,   \* the engine operations the last call invoked, in order
    emitted,        \* the packets the engine produced for the last call
    returned,       \* the packets the last call handed to its caller
    printed,        \* progress output of the last call
    submit,         \* <<[img, pts, ...]>> passed to the last vpx_codec_encode
    reported,       \* <<n>> printed by the last "Processed n frames."
    setup_done,     \* a setup_encoder call has returned EXIT_SUCCESS
    finalised,      \* finalise_encoder has been called after a successful setup
    long_bits,      \* the width of long in this build
    lost,           \* packets the engine still held when the last call discarded them
    since_setup,    \* encode_frame calls made since the last successful setup
    io              \* the call of a file helper: its inputs and, once made, its results

\* the encoder session: the statics and what is observed of the calls
session == <<codec, cfg, frame_cnt, res, frame_avail, got_data, proc, diag, ret,
             op, args, live, created, destroy_calls, engine_calls, emitted,
             returned, printed, submit, reported, setup_done, finalised,
             since_setup, long_bits, lost>>

vars == <<codec, cfg, frame_cnt, res, frame_avail, got_data, proc, diag, ret,
          op, args, live, created, destroy_calls, engine_calls, emitted, returned,
          printed, submit, reported, setup_done, finalised, since_setup,
          long_bits, lost, io>>

\* the session state of the specification, read off the calls made so far
SessionState ==
    IF finalised THEN "Finalized"
    ELSE IF setup_done THEN "Ready"
    ELSE "Uninitialized"

\* no file helper is being called
Idle == [fn |-> "none", pc |-> "idle"]

\* the statics as the program starts
Statics ==
    /\ codec = NoHandle
    /\ cfg = [g_w |-> 0, g_h |-> 0, rc_target_bitrate |-> 0]
    /\ frame_cnt = 0
    /\ res = VPX_CODEC_OK
    /\ frame_avail = 0
    /\ got_data = 0
    /\ proc = "running"
    /\ diag = ""
    /\ ret = "none"
    /\ op = "none"
    /\ args = <<>>
    /\ live = {}
    /\ created = 0
    /\ destroy_calls = 0
    /\ engine_calls = <<>>
    /\ emitted = <<>>
    /\ returned = <<>>
    /\ printed = <<>>
    /\ submit = <<>>
    /\ reported = <<>>
    /\ setup_done = FALSE
    /\ finalised = FALSE
    /\ since_setup = 0
    /\ long_bits \in LongWidths
    /\ lost = 0

Init ==
    /\ Statics
    /\ io = Idle

\* ----------------------------------------------------------- helpers ----

\* die(): print the message and exit(EXIT_FAILURE)
die(msg) ==
    /\ proc' = "exited"
    /\ diag' = msg
    /\ ret' = "none"

\* die_codec() without its exit(): the diagnostic is printed and the caller runs on
die_codec_no_exit(msg) ==
    /\ proc' = proc
    /\ diag' = msg
    /\ ret' = "none"

\* die_codec(): print the message with the engine's error text, exit(EXIT_FAILURE)
die_codec(msg) ==
    /\ proc' = "exited"
    /\ diag' = msg
    /\ ret' = "none"

\* setup_encoder's resolution test
InvalidResolution(width, height) ==
    width < 16 \/ width % 2 # 0 \/ height < 16 \/ height % 2 # 0

\* C integers wider than the checker's own are written as little-endian
\* sequences of 16-bit limbs; a w-bit integer has w/16 of them
Limb == 2 ^ 16

\* x as n limbs: the value modulo 2^(16n)
Fit(x, n) == [i \in 1..n |-> IF i <= Len(x) THEN x[i] ELSE 0]

\* x * m + carry for limbs x and 0 <= m < 2^15
RECURSIVE MulLimbs(_, _, _)
MulLimbs(x, m, carry) ==
    IF x = <<>>
    THEN IF carry = 0 THEN <<>> ELSE <<carry>>
    ELSE LET p == Head(x) * m + carry
         IN  <<p % Limb>> \o MulLimbs(Tail(x), m, p \div Limb)

\* limbs 1..i of x \div d, with r carried down from the limbs above i, 0 < d < 2^15
RECURSIVE DivLimbs(_, _, _, _)
DivLimbs(x, d, i, r) ==
    IF i = 0
    THEN <<>>
    ELSE LET cur == r * Limb + x[i]
         IN  DivLimbs(x, d, i - 1, cur % d) \o <<cur \div d>>

\* the value of limbs that fit the checker's integers
LimbsToNat(x) ==
    IF Len(x) = 0 THEN 0
    ELSE IF Len(x) = 1 THEN x[1]
    ELSE x[1] + x[2] * Limb

\* width * height * cfg.rc_target_bitrate / cfg.g_w / cfg.g_h with long width,
\* long height and unsigned int operands from cfg: evaluated in long where
\* long is wider than unsigned int (64 bits), and else in unsigned long,
\* where the product wraps at 2^32
BitrateQuotient(def, width, height) ==
    LET n    == long_bits \div 16
        wh   == Fit(MulLimbs(<<width>>, height, 0), n)
        prod == Fit(MulLimbs(wh, def.rc_target_bitrate, 0), n)
        q1   == DivLimbs(prod, def.g_w, n, 0)
    IN  DivLimbs(q1, def.g_h, n, 0)

\* cfg after "Update the default configuration with our settings"; the
\* quotient is stored in the unsigned int rc_target_bitrate
UpdatedCfg(def, width, height) ==
    [g_w |-> width,
     g_h |-> height,
     rc_target_bitrate |-> LimbsToNat(Fit(BitrateQuotient(def, width, height), 2))]

\* vpx_codec_enc_init leaving its allocation behind when it fails
HandlesAfterInit_leak(ok, h) ==
    live \cup {h}

\* the engine's handles after vpx_codec_enc_init on the codec context: a new
\* handle h when it succeeds; when it fails the engine frees what it allocated
HandlesAfterInit(ok, h) ==
    IF ok THEN live \cup {h} ELSE live

\* frame_avail as encode_frame's call of the engine reads it, without the
\* assignment that precedes the call
FrameAvailAtEncode_stale == frame_avail

\* frame_avail as encode_frame's call of the engine reads it
FrameAvailAtEncode == 1

\* the packets of the last encode call that were never fetched from the engine
Unfetched == Len(emitted) - Len(returned)

\* the packets encode_frame hands back: the one vpx_codec_get_cx_data call's result
Drained(pkts) ==
    IF pkts = <<>> THEN <<>> ELSE <<Head(pkts)>>

\* the progress printf testing the key bit without the packet kind
Progress_any_kind(pkt) ==
    IF pkt.key THEN "K" ELSE "."

\* the progress character of a packet
Progress(pkt) ==
    IF pkt.kind = "VPX_CODEC_CX_FRAME_PKT" /\ pkt.key THEN "K" ELSE "."

\* the switch on pkt->kind followed by the progress printf
PrintedFor(pkt) ==
    (IF pkt.kind = "VPX_CODEC_CX_FRAME_PKT" THEN <<>> ELSE <<"WARNING">>)
        \o <<Progress(pkt)>>

\* the count finalise_encoder prints
ProcessedCount == frame_cnt - 1

\* ----------------------------------------------------------- actions ----

setup_encoder(width, height) ==
    /\ proc = "running"
    /\ created < MaxHandles
    /\ op' = "setup"
    /\ args' = <<width, height>>
    /\ emitted' = <<>>
    /\ returned' = <<>>
    /\ printed' = <<>>
    /\ lost' = 0
    /\ UNCHANGED <<frame_cnt, destroy_calls, submit, reported, finalised,
                   long_bits, io>>
    /\ IF InvalidResolution(width, height)
       THEN /\ die("Invalid resolution")
            /\ engine_calls' = <<>>
            /\ UNCHANGED <<codec, cfg, res, frame_avail, got_data, live,
                           created, setup_done, since_setup>>
       ELSE \E cfg_ok \in BOOLEAN, init_ok \in BOOLEAN, def \in EngineDefaults :
            IF ~cfg_ok
            THEN \* vpx_codec_enc_config_default failed: return EXIT_FAILURE
                 /\ res' = VPX_CODEC_ERROR
                 /\ diag' = "Failed to get config"
                 /\ ret' = "EXIT_FAILURE"
                 /\ engine_calls' = <<"config_default">>
                 /\ UNCHANGED <<codec, cfg, frame_avail, got_data, proc,
                                live, created, setup_done, since_setup>>
            ELSE /\ res' = VPX_CODEC_OK
                 /\ cfg' = UpdatedCfg(def, width, height)
                 /\ engine_calls' = <<"config_default", "enc_init">>
                 /\ live' = HandlesAfterInit(init_ok, created + 1)
                 /\ IF init_ok
                    THEN /\ codec' = created + 1
                         /\ created' = created + 1
                         /\ frame_avail' = 1
                         /\ got_data' = 0
                         /\ diag' = ""
                         /\ ret' = "EXIT_SUCCESS"
                         /\ setup_done' = TRUE
                         /\ since_setup' = 0
                         /\ UNCHANGED proc
                    ELSE /\ codec' = NoHandle
                         /\ die_codec("Failed to initialize encoder")
                         /\ UNCHANGED <<created, frame_avail, got_data,
                                        setup_done, since_setup>>

encode_frame(raw) ==
    /\ proc = "running"
    /\ frame_cnt < MaxFrames
    /\ op' = "encode"
    /\ args' = <<raw>>
    /\ frame_avail' = FrameAvailAtEncode
    /\ submit' = <<[img |-> IF frame_avail' # 0 THEN raw ELSE "NULL",
                    pts |-> frame_cnt, duration |-> 1, flags |-> flags,
                    deadline |-> "VPX_DL_REALTIME"]>>
    /\ engine_calls' = <<"encode">>
    /\ since_setup' = since_setup + 1
    /\ UNCHANGED <<codec, cfg, res, live, created, destroy_calls, reported,
                   setup_done, finalised, long_bits, io>>
    /\ \E err \in (IF codec \in live THEN BOOLEAN ELSE {TRUE}) :
       IF err
       THEN /\ die_codec("Failed to encode frame")
            /\ lost' = 0
            /\ emitted' = <<>>
            /\ returned' = <<>>
            /\ printed' = <<>>
            /\ UNCHANGED <<frame_cnt, got_data>>
       ELSE \E pkts \in PacketSeqs :
            /\ lost' = Unfetched
            /\ emitted' = pkts
            /\ returned' = Drained(pkts)
            /\ got_data' = 1
            /\ IF pkts # <<>>
               THEN /\ printed' = PrintedFor(Head(pkts))
                    /\ frame_cnt' = frame_cnt + 1
                    /\ diag' = ""
                    /\ ret' = "pkt"
                    /\ UNCHANGED proc
               ELSE \* vpx_codec_get_cx_data returned NULL and pkt->kind reads
                    \* through it: the process faults, or the read yields an
                    \* arbitrary packet and the function runs on
                    \/ /\ proc' = "crashed"
                       /\ diag' = "SIGSEGV"
                       /\ ret' = "none"
                       /\ printed' = <<>>
                       /\ UNCHANGED frame_cnt
                    \/ \E junk \in Packets :
                       /\ printed' = PrintedFor(junk)
                       /\ frame_cnt' = frame_cnt + 1
                       /\ diag' = ""
                       /\ ret' = "NULL"
                       /\ UNCHANGED proc

finalise_encoder ==
    /\ proc = "running"
    /\ op' = "finalise"
    /\ args' = <<>>
    /\ reported' = <<ProcessedCount>>
    /\ destroy_calls' = destroy_calls + 1
    /\ engine_calls' = <<"destroy">>
    /\ finalised' = (finalised \/ setup_done)
    /\ emitted' = <<>>
    /\ returned' = <<>>
    /\ printed' = <<>>
    /\ UNCHANGED <<cfg, frame_cnt, res, frame_avail, got_data, created, submit,
                   setup_done, since_setup, long_bits, io>>
    /\ lost' = IF codec \in live THEN Unfetched ELSE 0
    /\ \E fail \in (IF codec \in live THEN BOOLEAN ELSE {TRUE}) :
       IF ~fail
       THEN /\ live' = live \ {codec}
            /\ codec' = NoHandle
            /\ diag' = ""
            /\ ret' = "EXIT_SUCCESS"
            /\ UNCHANGED proc
       ELSE /\ \E freed \in BOOLEAN :
                 live' = IF freed THEN live \ {codec} ELSE live
            /\ UNCHANGED codec
            /\ die_codec("Failed to destroy codec")

Next ==
    \/ \E width \in Dims, height \in Dims : setup_encoder(width, height)
    \/ \E raw \in Frames : encode_frame(raw)
    \/ finalise_encoder

Spec == Init /\ [][Next]_vars

\* ------------------------------------------------------------ claims ----

\* what the diagnostics stand for in the error taxonomy
EngineRejected(d) == d \in {"Failed to get config", "Failed to initialize encoder"}

\* C1: once the session is Finalized, a further setup, encodeFrame or finalize
\* fails with InvalidState, calls no engine operation, leaves the frame
\* counter alone and leaves the session Finalized.
C1_NoEffectAfterFinalize ==
    [][SessionState = "Finalized" =>
          /\ diag' = "InvalidState"
          /\ engine_calls' = <<>>
          /\ frame_cnt' = frame_cnt
          /\ SessionState' = "Finalized"]_vars

\* C2: in a Ready session every encodeFrame call on which the engine reports
\* no error returns normally and adds exactly one to the frame counter,
\* whether the engine emitted 0, 1 or more packets.
C2_EachEncodeAddsOne ==
    [][(SessionState = "Ready" /\ op' = "encode"
            /\ diag' # "Failed to encode frame") =>
          /\ ret' # "none"
          /\ frame_cnt' = frame_cnt + 1]_vars

\* C3: an encodeFrame call that returns hands back every packet the engine
\* emitted for it, in emission order.
C3_AllPacketsDrained ==
    (op = "encode" /\ ret # "none") => returned = emitted

\* C4: a successful finalize reports the number of completed encodeFrame calls.
C4_ReportsFrameCount ==
    (op = "finalise" /\ ret = "EXIT_SUCCESS") => reported = <<frame_cnt>>

\* C5: when the run has ended after a successful setup, the engine's destroy
\* has been invoked exactly once.
C5_ReleasedExactlyOnce ==
    (proc # "running" /\ setup_done) => destroy_calls = 1

\* C6: a setup call that fails on an Uninitialized session leaves it
\* Uninitialized with no engine handle allocated; it fails with the
\* invalid-resolution diagnostic exactly when the resolution is odd or below 16
\* in a dimension, and otherwise because the engine rejected the configuration
\* or the handle creation.
C6_FailedSetupLeavesNothing ==
    [][(SessionState = "Uninitialized" /\ op' = "setup"
            /\ ret' # "EXIT_SUCCESS") =>
          /\ SessionState' = "Uninitialized"
          /\ live' = {}
          /\ codec' = NoHandle
          /\ IF InvalidResolution(args'[1], args'[2])
             THEN diag' = "Invalid resolution" /\ engine_calls' = <<>>
             ELSE EngineRejected(diag')]_vars

C6_Witness ==
    /\ op = "setup"
    /\ SessionState = "Uninitialized"
    /\ diag = "Failed to initialize encoder"
    /\ engine_calls = <<"config_default", "enc_init">>
    /\ proc = "exited"

\* C7: a setup call with an even resolution of at least 16x16 that the engine
\* accepts succeeds and leaves the session Ready with frame counter 0.
C7_ValidSetupReadyAtZero ==
    [][(op' = "setup" /\ vars' # vars
            /\ ~InvalidResolution(args'[1], args'[2])
            /\ ~EngineRejected(diag')) =>
          /\ ret' = "EXIT_SUCCESS"
          /\ SessionState' = "Ready"
          /\ frame_cnt' = 0]_vars

\* C8: encodeFrame on an Uninitialized session fails with InvalidState,
\* calls no engine operation and leaves the frame counter alone.
C8_EncodeNeedsReady ==
    [][(SessionState = "Uninitialized" /\ op' = "encode" /\ vars' # vars) =>
          /\ diag' = "InvalidState"
          /\ engine_calls' = <<>>
          /\ frame_cnt' = frame_cnt]_vars

\* C9: finalize in Ready attempts the release once and leaves the session
\* Finalized whether or not the engine reports failure; when it reports
\* failure the call ends with the finalize diagnostic and no later step
\* attempts the release again.
C9_FinalizeOnceEvenOnFailure ==
    [][/\ (SessionState = "Ready" /\ op' = "finalise") =>
             /\ SessionState' = "Finalized"
             /\ destroy_calls' = destroy_calls + 1
             /\ engine_calls' = <<"destroy">>
             /\ (ret' # "EXIT_SUCCESS" => diag' = "Failed to destroy codec")
       /\ diag = "Failed to destroy codec" =>
             /\ destroy_calls' = destroy_calls
             /\ SessionState' = SessionState]_vars

C9_Witness ==
    /\ op = "finalise"
    /\ SessionState = "Finalized"
    /\ diag = "Failed to destroy codec"
    /\ destroy_calls = 1
    /\ proc = "exited"

\* C10: at most one engine handle is live, and it is the one the codec
\* context holds: no setup call creates a second handle or overwrites the first.
C10_OneLiveHandle ==
    Cardinality(live) <= 1 /\ live \subseteq {codec}

\* C11: the i-th encodeFrame call after a successful setup submits its frame
\* with timestamp i-1.
C11_TimestampsFromZero ==
    [][(setup_done /\ op' = "encode" /\ vars' # vars) =>
          submit'[1].pts = since_setup]_vars

\* C12: an encodeFrame call on which the engine reports an error ends the
\* run with the encode diagnostic, does not increment the frame counter, and
\* no later step submits a frame to the engine.
C12_EncodeErrorAborts ==
    [][/\ (op' = "encode" /\ vars' # vars
               /\ diag' = "Failed to encode frame") =>
             /\ frame_cnt' = frame_cnt
             /\ proc' = "exited"
             /\ returned' = <<>>
       /\ diag = "Failed to encode frame" =>
             /\ engine_calls' # <<"encode">>
             /\ since_setup' = since_setup
             /\ frame_cnt' = frame_cnt]_vars

C12_Witness ==
    /\ op = "encode"
    /\ diag = "Failed to encode frame"
    /\ setup_done
    /\ frame_cnt = 2
    /\ since_setup = 3
    /\ proc = "exited"

\* C13: while the engine handle is live no operation changes the session
\* configuration (resolution and target bitrate).
C13_ConfigImmutableWhileLive ==
    [][(codec \in live) => (cfg' = cfg)]_vars

LimbsLeq(a, b) ==
    \/ a = b
    \/ \E i \in 1..Len(a) :
          /\ a[i] < b[i]
          /\ \A j \in (i + 1)..Len(a) : a[j] = b[j]

TimesArea(q, def) ==
    Fit(MulLimbs(MulLimbs(<<q % Limb, q \div Limb>>, def.g_w, 0), def.g_h, 0), 4)

IsScaledBitrate(q, def, width, height) ==
    LET exact == Fit(MulLimbs(MulLimbs(<<width>>, height, 0),
                              def.rc_target_bitrate, 0), 4)
    IN  /\ LimbsLeq(TimesArea(q, def), exact)
        /\ ~LimbsLeq(TimesArea(q + 1, def), exact)

C16_BitrateScaled ==
    [][(op' = "setup" /\ vars' # vars /\ ret' = "EXIT_SUCCESS") =>
          /\ cfg'.g_w = args'[1]
          /\ cfg'.g_h = args'[2]
          /\ \E def \in EngineDefaults :
                 IsScaledBitrate(cfg'.rc_target_bitrate, def, args'[1], args'[2])]_vars

\* C19: every encode_frame call passes the caller's frame, never the null
\* (flush) frame, to the engine's encode operation; finalise_encoder calls
\* only the engine's destroy, so no flush is requested before the handle is
\* destroyed, and it hands back no packet, also when the engine still holds some.
C19_NeverFlushes ==
    [][/\ (op' = "encode" /\ vars' # vars) =>
             /\ submit'[1].img = args'[1]
             /\ submit'[1].img # "NULL"
             /\ engine_calls' = <<"encode">>
       /\ (op' = "finalise" /\ vars' # vars) =>
             /\ engine_calls' = <<"destroy">>
             /\ submit' = submit
             /\ returned' = <<>>
             /\ lost' = (IF codec \in live THEN Unfetched ELSE 0)]_vars

C19_Witness ==
    /\ op = "finalise"
    /\ ret = "EXIT_SUCCESS"
    /\ lost = 1
    /\ returned = <<>>
    /\ submit # <<>>
    /\ live = {}

\* ------------------------------------------------------ read_frame ----

\* image sizes read_frame is called with, up to the largest VP8 frame
ReadDims == {0, 1, 2, 16, 4096, 16383}

\* to_read = (img->w * img->h * 3) / 2 in unsigned int
ToRead(w, h) ==
    LimbsToNat(DivLimbs(Fit(MulLimbs(MulLimbs(<<w>>, h, 0), 3, 0), 2), 2, 2, 0))

\* the bytes the stream can still have when a frame of n bytes is asked for
Remaining(n) == {k \in {0, 1, n \div 2, n - 1, n, n + 1} : k >= 0}

\* what fread(buf, 1, to_read, f) returns on a stream with avail bytes left
Fread(to_read, avail) == IF avail < to_read THEN avail ELSE to_read

\* the partial-frame warning printed for an empty read as well
ReadWarns_on_empty(nbytes, to_read) == nbytes # to_read

\* whether read_frame prints its partial-frame warning
ReadWarns(nbytes, to_read) == nbytes # to_read /\ nbytes > 0

\* read_frame's return value
ReadResult(nbytes, to_read) == IF nbytes # to_read THEN 0 ELSE 1

InitReadFrame ==
    /\ Statics
    /\ \E w \in ReadDims, h \in ReadDims :
       \E avail \in Remaining(ToRead(w, h)) :
          io = [fn |-> "read_frame", pc |-> "call", w |-> w, h |-> h,
                avail |-> avail]

read_frame ==
    /\ io.fn = "read_frame"
    /\ io.pc = "call"
    /\ LET to_read == ToRead(io.w, io.h)
           nbytes  == Fread(to_read, io.avail)
       IN  io' = [fn |-> "read_frame", pc |-> "done", w |-> io.w, h |-> io.h,
                  avail |-> io.avail - nbytes,
                  to_read |-> to_read,
                  nbytes |-> nbytes,
                  fmt |-> "VPX_IMG_FMT_YV12",
                  warned |-> ReadWarns(nbytes, to_read),
                  res |-> ReadResult(nbytes, to_read)]
    /\ UNCHANGED session

SpecReadFrame == InitReadFrame /\ [][read_frame]_vars

\* C15: for images up to 16383x16383, read_frame asks for exactly
\* width*height*3/2 bytes and returns 1 (Full) exactly when it got them all,
\* without a warning; every short read returns 0 and leaves the process
\* running: with the warning when at least one byte was read (Partial),
\* without it when none was (Empty).
C15_ReadFrameOutcome ==
    (io.fn = "read_frame" /\ io.pc = "done") =>
        /\ 2 * io.to_read <= io.w * io.h * 3
        /\ io.w * io.h * 3 < 2 * io.to_read + 2
        /\ (io.res = 1) <=> (io.nbytes = io.to_read)
        /\ io.res \in {0, 1}
        /\ (io.res = 1) => ~io.warned
        /\ (io.res = 0 /\ io.nbytes > 0) => io.warned
        /\ (io.res = 0 /\ io.nbytes = 0) => ~io.warned
        /\ proc = "running"
        /\ diag = ""

C15_Witness ==
    /\ io.fn = "read_frame"
    /\ io.pc = "done"
    /\ io.w = 16
    /\ io.h = 16
    /\ io.to_read = 384
    /\ io.nbytes = 192
    /\ io.res = 0
    /\ io.warned

\* ------------------------------------------- write_ivf_file_header ----

\* a 32-bit value is written as two limbs <<low 16 bits, high 16 bits>>
fourcc == <<20566, 12344>>          \* 0x30385056

IVF_FILE_HDR_SZ == 32

\* (val >> 8k) stored into a char, k = 0..3, for a 32-bit val
ByteOf(val, k) ==
    LET half == val[(k \div 2) + 1]
    IN  IF k % 2 = 0 THEN half % 256 ELSE (half \div 256) % 256

\* mem_put_le16 of an unsigned int given as a number
mem_put_le16(val) == <<val % 256, (val \div 256) % 256>>

\* mem_put_le32 storing the most significant byte first
mem_put_le32_msb_first(val) ==
    <<ByteOf(val, 3), ByteOf(val, 2), ByteOf(val, 1), ByteOf(val, 0)>>

\* mem_put_le32 of a 32-bit value
mem_put_le32(val) ==
    <<ByteOf(val, 0), ByteOf(val, 1), ByteOf(val, 2), ByteOf(val, 3)>>

\* the characters 'D', 'K', 'I', 'F'
Magic == <<68, 75, 73, 70>>

\* the bytes write_ivf_file_header passes to fwrite: none when the pass is
\* neither VPX_RC_ONE_PASS nor VPX_RC_LAST_PASS
FileHeader(c, cnt) ==
    IF c.g_pass # "VPX_RC_ONE_PASS" /\ c.g_pass # "VPX_RC_LAST_PASS"
    THEN <<>>
    ELSE Magic
         \o mem_put_le16(0)
         \o mem_put_le16(IVF_FILE_HDR_SZ)
         \o mem_put_le32(fourcc)
         \o mem_put_le16(c.g_w)
         \o mem_put_le16(c.g_h)
         \o mem_put_le32(c.den)
         \o mem_put_le32(c.num)
         \o mem_put_le32(cnt)
         \o mem_put_le32(<<0, 0>>)

\* the inputs: 16-bit sizes and 32-bit rate, scale and frame count
HdrDims == {16, 64, 65535}
HdrRates == {<<30, 0>>, <<1, 0>>, <<4660, 22136>>, <<65535, 65535>>}
HdrCounts == {<<0, 0>>, <<10, 0>>, <<0, 1>>, <<65535, 65535>>}
Passes == {"VPX_RC_ONE_PASS", "VPX_RC_FIRST_PASS", "VPX_RC_LAST_PASS"}

InitFileHeader ==
    /\ Statics
    /\ \E w \in HdrDims, h \in HdrDims, den \in HdrRates, num \in HdrRates,
          cnt \in HdrCounts, pass \in Passes :
          io = [fn |-> "write_ivf_file_header", pc |-> "call",
                cfg |-> [g_pass |-> pass, g_w |-> w, g_h |-> h,
                         den |-> den, num |-> num],
                frame_cnt |-> cnt]

write_ivf_file_header ==
    /\ io.fn = "write_ivf_file_header"
    /\ io.pc = "call"
    /\ io' = [fn |-> io.fn, pc |-> "done", cfg |-> io.cfg,
              frame_cnt |-> io.frame_cnt,
              file |-> FileHeader(io.cfg, io.frame_cnt)]
    /\ UNCHANGED session

SpecFileHeader == InitFileHeader /\ [][write_ivf_file_header]_vars

\* reading the container header back, by the layout of the format
get_le16(b, off) == b[off + 1] + 256 * b[off + 2]
get_le32(b, off) == <<get_le16(b, off), get_le16(b, off + 2)>>

HeaderRoundTrips(file, c, cnt) ==
    /\ Len(file) = 32
    /\ SubSeq(file, 1, 4) = Magic
    /\ get_le16(file, 4) = 0
    /\ get_le16(file, 6) = 32
    /\ get_le16(file, 12) = c.g_w
    /\ get_le16(file, 14) = c.g_h
    /\ get_le32(file, 16) = c.den
    /\ get_le32(file, 20) = c.num
    /\ get_le32(file, 24) = cnt

\* C17 as claimed: for every configuration, writing the header and parsing
\* the 32 bytes gives back width, height, rate, scale and frame count, with
\* magic "DKIF", version 0 and header size 32.
C17_HeaderRoundTrip ==
    (io.fn = "write_ivf_file_header" /\ io.pc = "done") =>
        HeaderRoundTrips(io.file, io.cfg, io.frame_cnt)

\* C17 as amended: the round trip holds when the configuration's pass is
\* one-pass or last-pass; in the first pass of two no header is written.
C17_HeaderRoundTripUnlessFirstPass ==
    (io.fn = "write_ivf_file_header" /\ io.pc = "done") =>
        IF io.cfg.g_pass = "VPX_RC_FIRST_PASS"
        THEN io.file = <<>>
        ELSE HeaderRoundTrips(io.file, io.cfg, io.frame_cnt)

C17_Witness ==
    /\ io.fn = "write_ivf_file_header"
    /\ io.pc = "done"
    /\ io.cfg = [g_pass |-> "VPX_RC_ONE_PASS", g_w |-> 64, g_h |-> 64,
                 den |-> <<30, 0>>, num |-> <<1, 0>>]
    /\ io.frame_cnt = <<10, 0>>
    /\ io.file = <<68, 75, 73, 70, 0, 0, 32, 0, 86, 80, 56, 48, 64, 0, 64, 0,
                   30, 0, 0, 0, 1, 0, 0, 0, 10, 0, 0, 0, 0, 0, 0, 0>>

\* ------------------------------------------ write_ivf_frame_header ----

IVF_FRAME_HDR_SZ == 12

\* the header buffer after a write_ivf_frame_header that does not test the kind
FrameHeader_any_kind(pkt, header) ==
    mem_put_le32(pkt.sz)
        \o mem_put_le32(SubSeq(pkt.pts, 1, 2))
        \o mem_put_le32(SubSeq(pkt.pts, 3, 4))

\* the header buffer after write_ivf_frame_header(pkt, header); pts is the
\* 64-bit timestamp as four limbs: pts & 0xFFFFFFFF is its low two, pts >> 32
\* its high two
FrameHeader(pkt, header) ==
    IF pkt.kind # "VPX_CODEC_CX_FRAME_PKT"
    THEN header
    ELSE mem_put_le32(pkt.sz)
             \o mem_put_le32(SubSeq(pkt.pts, 1, 2))
             \o mem_put_le32(SubSeq(pkt.pts, 3, 4))

\* the inputs: payload sizes below 2^32, 64-bit timestamps, the caller's buffer
PktKinds == {"VPX_CODEC_CX_FRAME_PKT", "VPX_CODEC_STATS_PKT"}
PktSizes == {<<0, 0>>, <<1, 0>>, <<4660, 22136>>, <<65535, 65535>>}
PktTimes == {<<0, 0, 0, 0>>, <<9, 0, 0, 0>>, <<0, 0, 1, 0>>,
             <<4660, 22136, 258, 772>>, <<65535, 65535, 65535, 32767>>}
Buffers  == {[i \in 1..IVF_FRAME_HDR_SZ |-> 0],
             [i \in 1..IVF_FRAME_HDR_SZ |-> 170],
             [i \in 1..IVF_FRAME_HDR_SZ |-> i]}

InitFrameHeader ==
    /\ Statics
    /\ \E kind \in PktKinds, sz \in PktSizes, pts \in PktTimes,
          buf \in Buffers :
          io = [fn |-> "write_ivf_frame_header", pc |-> "call",
                pkt |-> [kind |-> kind, sz |-> sz, pts |-> pts],
                before |-> buf, header |-> buf]

write_ivf_frame_header ==
    /\ io.fn = "write_ivf_frame_header"
    /\ io.pc = "call"
    /\ io' = [io EXCEPT !.pc = "done",
                        !.header = FrameHeader(io.pkt, io.header)]
    /\ UNCHANGED session

SpecFrameHeader == InitFrameHeader /\ [][write_ivf_frame_header]_vars

\* C18: for a Frame-kind packet with a payload below 2^32 bytes the 12 header
\* bytes parse, little-endian, to the payload size, the low 32 bits and the
\* high 32 bits of the timestamp; for any other kind the buffer is unchanged.
C18_FrameHeaderLayout ==
    (io.fn = "write_ivf_frame_header" /\ io.pc = "done") =>
        IF io.pkt.kind = "VPX_CODEC_CX_FRAME_PKT"
        THEN /\ Len(io.header) = 12
             /\ get_le32(io.header, 0) = io.pkt.sz
             /\ get_le32(io.header, 4) \o get_le32(io.header, 8) = io.pkt.pts
        ELSE io.header = io.before

C18_Witness ==
    /\ io.fn = "write_ivf_frame_header"
    /\ io.pc = "done"
    /\ io.pkt = [kind |-> "VPX_CODEC_CX_FRAME_PKT", sz |-> <<4660, 22136>>,
                 pts |-> <<4660, 22136, 258, 772>>]
    /\ io.before = [i \in 1..12 |-> 170]
    /\ io.header = <<52, 18, 120, 86, 52, 18, 120, 86, 2, 1, 4, 3>>

====
